---- MODULE Spec2Model ----
(***************************************************************************)
(* Model of MotionController (src/src/controller/motion/motion.controller.js) *)
(* : the per-camera debounce resolution done by #handleMotion, the timers  *)
(* it schedules with setTimeout, and the invocations that are suspended at *)
(* the settings lookup (the only await of #handleMotion).                  *)
(*                                                                         *)
(* Time is counted in whole seconds and kept as the time left to each     *)
(* deadline.  A timer never fires before its deadline; it may fire any     *)
(* time at or after it.                                                    *)
(***************************************************************************)
EXTENDS Integers, Sequences, FiniteSets, Bags, TLC

VARIABLES
    cameras,       \* #cameras: ConfigService.ui.cameras, a list of camera configs
    motionTimers,  \* #motionTimers: camera name -> timer handle (NoTimer = no key)
    timeouts,      \* the runtime's scheduled (not fired, not cleared) setTimeout timers
    inflight,      \* bag of the invocations of #handleMotion suspended at line 65
    last,          \* what the most recent step of the controller did and returned
    windowLeft,    \* history: camera name -> seconds left of the motionTimeout
    round          \* history: the camera under observation, if any, and how far
                   \* the last resolutions of its triggers have come in the
                   \* sequence true, true, false, true (0..4)
                   \* window that its last forwarded state=true trigger opened

vars == <<cameras, motionTimers, timeouts, inflight, last, windowLeft, round>>

----------------------------------------------------------------------------
(* Bounds of the model. *)

MaxInFlight == 2   \* invocations suspended at the lookup at one time
MaxTimers == 3     \* timer handles the runtime has to give out
MaxPending == 1    \* invocations the channels have suspended at the lookup at one time

----------------------------------------------------------------------------
(* Values. *)

NoTimer == 0
NoCamera == [name |-> "", recordOnMovement |-> FALSE, motionTimeout |-> 0]
NoStatus == 0
NoSettings == [defined |-> FALSE, atHome |-> FALSE, exclude |-> {}]
NoCall == [triggerType |-> "", cameraName |-> "", state |-> FALSE, event |-> ""]
NoStep == [op |-> "none", call |-> NoCall, settings |-> NoSettings,
           result |-> [error |-> FALSE, message |-> <<>>],
           handle |-> <<>>, emit |-> <<>>, lookup |-> FALSE, timeout |-> NoTimer,
           status |-> NoStatus]

NoRound == [camera |-> "", step |-> 0]
CameraNames == {"Garage", "Porch"}
Names == CameraNames \cup {"Unknown"}
TimerIds == 1..MaxTimers

(* What a channel hands to #handleMotion as (triggerType, event). *)
Sources == { <<"motion", "http">>, <<"doorbell", "mqtt">> }

(* The camera lists of the runs: Garage records on movement with a timeout *)
(* of 2 s; Porch takes each kind of configuration.                         *)
PorchConfigs ==
    { [name |-> "Porch", recordOnMovement |-> TRUE, motionTimeout |-> t] : t \in {-1, 0, 2} }
    \cup { [name |-> "Porch", recordOnMovement |-> FALSE, motionTimeout |-> 2] }

Registries ==
    { << [name |-> "Garage", recordOnMovement |-> TRUE, motionTimeout |-> 2], p >> :
        p \in PorchConfigs }

(* What the settings store returns for settings.general: nothing, or an    *)
(* object with atHome and exclude.                                         *)
GeneralSettings ==
    { NoSettings,
      [defined |-> TRUE, atHome |-> TRUE, exclude |-> {}],
      [defined |-> TRUE, atHome |-> TRUE, exclude |-> {"Garage"}] }

----------------------------------------------------------------------------
(* #getCamera: the first camera of the list with that name. *)
RECURSIVE Find(_, _, _)
Find(list, cameraName, i) ==
    IF i > Len(list) THEN NoCamera
    ELSE IF list[i].name = cameraName THEN list[i]
    ELSE Find(list, cameraName, i + 1)

(* getCamera with the name assigned instead of compared: the first camera. *)
getCameraFirst(cameraName) == cameras[1]

getCamera(cameraName) == Find(cameras, cameraName, 1)

(* Lines 66-67. *)
atHome(generalSettings) ==
    IF generalSettings.defined THEN generalSettings.atHome ELSE FALSE

cameraExcluded(generalSettings, cameraName) ==
    IF generalSettings.defined THEN cameraName \in generalSettings.exclude ELSE FALSE

(* SkipAtHome with the exclusion test the wrong way round. *)
SkipAtHomeExcluded(generalSettings, cameraName) ==
    atHome(generalSettings) /\ cameraExcluded(generalSettings, cameraName)

(* Line 69: the at-home suppression. *)
SkipAtHome(generalSettings, cameraName) ==
    atHome(generalSettings) /\ ~cameraExcluded(generalSettings, cameraName)

(* timeoutConfig with the test > 0 in place of >= 0. *)
timeoutConfigPositive(camera) ==
    IF camera.motionTimeout > 0 THEN camera.motionTimeout ELSE 1

(* Line 84. *)
timeoutConfig(camera) ==
    IF camera.motionTimeout >= 0 THEN camera.motionTimeout ELSE 1

(* The arguments of EventController.handle (lines 93, 105) and of          *)
(* #controller.emit('motion', ...) (line 80).                              *)
Forward(c) == [triggerType |-> c.triggerType, cameraName |-> c.cameraName, state |-> c.state]
Emit(c) == [cameraName |-> c.cameraName, triggerType |-> c.triggerType,
            state |-> c.state, event |-> c.event]

(* ArmedBranch with the trigger forwarded whatever its state. *)
ArmedBranchForwards(c) ==
    [clearTimeout |-> TRUE,
     delete |-> TRUE,
     arm |-> FALSE,
     handle |-> <<Forward(c)>>,
     message |-> IF c.state THEN <<"Skip motion event, timeout active!">>
                 ELSE <<"Handled through extern controller">>]

(* ArmedBranch with the entry deleted but the timer not cancelled. *)
ArmedBranchNoClear(c) ==
    [clearTimeout |-> FALSE,
     delete |-> TRUE,
     arm |-> FALSE,
     handle |-> IF c.state THEN <<>> ELSE <<Forward(c)>>,
     message |-> IF c.state THEN <<"Skip motion event, timeout active!">>
                 ELSE <<"Handled through extern controller">>]

(* ArmedBranch with the reset event not forwarded. *)
ArmedBranchNoReset(c) ==
    [clearTimeout |-> TRUE,
     delete |-> TRUE,
     arm |-> FALSE,
     handle |-> <<>>,
     message |-> IF c.state THEN <<"Skip motion event, timeout active!">>
                 ELSE <<"Handled through extern controller">>]

(* Lines 86-94: a timer is stored for the camera. *)
ArmedBranch(c) ==
    [clearTimeout |-> TRUE,
     delete |-> TRUE,
     arm |-> FALSE,
     handle |-> IF c.state THEN <<>> ELSE <<Forward(c)>>,
     message |-> IF c.state THEN <<"Skip motion event, timeout active!">>
                 ELSE <<"Handled through extern controller">>]

(* IdleBranch arming on every state=true trigger, whatever the timeout. *)
IdleBranchArmsAlways(camera, c) ==
    [clearTimeout |-> FALSE,
     delete |-> FALSE,
     arm |-> c.state,
     handle |-> <<Forward(c)>>,
     message |-> <<"Handled through intern controller">>]

(* IdleBranch arming whatever the state of the trigger. *)
IdleBranchArmsOnReset(camera, c) ==
    [clearTimeout |-> FALSE,
     delete |-> FALSE,
     arm |-> timeoutConfig(camera) > 0,
     handle |-> <<Forward(c)>>,
     message |-> <<"Handled through intern controller">>]

(* Lines 95-107: no timer is stored for the camera. *)
IdleBranch(camera, c) ==
    [clearTimeout |-> FALSE,
     delete |-> FALSE,
     arm |-> c.state /\ timeoutConfig(camera) > 0,
     handle |-> <<Forward(c)>>,
     message |-> <<"Handled through intern controller">>]

(* Line 82 false: the debounce step is not run. *)
ExternOnly ==
    [clearTimeout |-> FALSE, delete |-> FALSE, arm |-> FALSE, handle |-> <<>>,
     message |-> <<"Handled through extern controller">>]

(* Debounce run whatever recordOnMovement says. *)
DebounceAlways(camera, c, timeout) ==
    IF timeout # NoTimer THEN ArmedBranch(c) ELSE IdleBranch(camera, c)

(* Lines 82-108: the debounce step, given the handle stored for the camera. *)
Debounce(camera, c, timeout) ==
    IF camera.recordOnMovement
    THEN IF timeout # NoTimer THEN ArmedBranch(c) ELSE IdleBranch(camera, c)
    ELSE ExternOnly

(* Resolve with the timer of the camera looked up for motion triggers only. *)
ResolveByType(camera, c, generalSettings, timeout) ==
    IF SkipAtHome(generalSettings, c.cameraName)
    THEN [clearTimeout |-> FALSE, delete |-> FALSE, arm |-> FALSE,
          handle |-> <<>>, emit |-> <<>>, timeout |-> NoTimer,
          message |-> <<"Skip motion trigger. At Home is active and ",
                        c.cameraName, " is not excluded!">>]
    ELSE LET t == IF c.triggerType = "motion" THEN timeout ELSE NoTimer
             d == Debounce(camera, c, t)
         IN  [clearTimeout |-> d.clearTimeout, delete |-> d.delete, arm |-> d.arm,
              handle |-> d.handle, emit |-> <<Emit(c)>>,
              timeout |-> IF camera.recordOnMovement THEN t ELSE NoTimer,
              message |-> d.message]

(* Resolve with the notification emitted only for a forwarded trigger. *)
ResolveEmitsOnForward(camera, c, generalSettings, timeout) ==
    IF SkipAtHome(generalSettings, c.cameraName)
    THEN [clearTimeout |-> FALSE, delete |-> FALSE, arm |-> FALSE,
          handle |-> <<>>, emit |-> <<>>, timeout |-> NoTimer,
          message |-> <<"Skip motion trigger. At Home is active and ",
                        c.cameraName, " is not excluded!">>]
    ELSE LET d == Debounce(camera, c, timeout)
         IN  [clearTimeout |-> d.clearTimeout, delete |-> d.delete, arm |-> d.arm,
              handle |-> d.handle,
              emit |-> IF d.handle = <<>> THEN <<>> ELSE <<Emit(c)>>,
              timeout |-> IF camera.recordOnMovement THEN timeout ELSE NoTimer,
              message |-> d.message]

(* Lines 66-109: what the invocation c does once the lookup has returned   *)
(* generalSettings, given the timer handle stored for its camera; timeout  *)
(* is the handle that line 83 read (NoTimer when the line is not run).     *)
Resolve(camera, c, generalSettings, timeout) ==
    IF SkipAtHome(generalSettings, c.cameraName)
    THEN [clearTimeout |-> FALSE, delete |-> FALSE, arm |-> FALSE,
          handle |-> <<>>, emit |-> <<>>, timeout |-> NoTimer,
          message |-> <<"Skip motion trigger. At Home is active and ",
                        c.cameraName, " is not excluded!">>]
    ELSE LET d == Debounce(camera, c, timeout)
         IN  [clearTimeout |-> d.clearTimeout, delete |-> d.delete, arm |-> d.arm,
              handle |-> d.handle, emit |-> <<Emit(c)>>,
              timeout |-> IF camera.recordOnMovement THEN timeout ELSE NoTimer,
              message |-> d.message]

(* The handles that no scheduled timer and no map entry holds; setTimeout  *)
(* returns one of them (the least, to have one name for it).               *)
FreeTimers ==
    { t \in TimerIds : /\ \A x \in timeouts : x.id # t
                       /\ \A n \in CameraNames : motionTimers[n] # t }

FreshTimer == CHOOSE t \in FreeTimers : \A u \in FreeTimers : t <= u

----------------------------------------------------------------------------
Init ==
    /\ cameras \in Registries
    /\ motionTimers = [n \in CameraNames |-> NoTimer]
    /\ timeouts = {}
    /\ inflight = EmptyBag
    /\ last = NoStep
    /\ windowLeft = [n \in CameraNames |-> 0]
    /\ round = NoRound

(* writeHead answering 200 whatever the result. *)
writeHeadOk(result) == 200

(* Line 186: the status of the HTTP answer. *)
writeHead(result) == IF result.error THEN 500 ELSE 200

(* Lines 56, 184-188, 264: only the HTTP adapter answers its caller; the   *)
(* other adapters log the result.                                          *)
Answer(event, result) == IF event = "http" THEN writeHead(result) ELSE NoStatus

(* Lines 61-65, known camera: the invocation asks the settings store and   *)
(* is suspended at the await.                                              *)
Start(triggerType, cameraName, state, event) ==
    /\ BagCardinality(inflight) < MaxInFlight
    /\ getCamera(cameraName) # NoCamera
    /\ LET c == [triggerType |-> triggerType, cameraName |-> cameraName,
                 state |-> state, event |-> event]
       IN  /\ inflight' = inflight (+) SetToBag({c})
           /\ last' = [NoStep EXCEPT !.op = "start", !.call = c]
    /\ UNCHANGED <<cameras, motionTimers, timeouts, windowLeft, round>>

(* Lines 61-64, 110-117: the camera is not found; nothing is awaited. *)
NotFound(triggerType, cameraName, state, event) ==
    /\ getCamera(cameraName) = NoCamera
    /\ last' = [op |-> "handle",
                call |-> [triggerType |-> triggerType, cameraName |-> cameraName,
                          state |-> state, event |-> event],
                settings |-> NoSettings,
                result |-> [error |-> TRUE,
                            message |-> <<"Camera '", cameraName, "' not found">>],
                handle |-> <<>>, emit |-> <<>>, lookup |-> FALSE, timeout |-> NoTimer,
                status |-> Answer(event, [error |-> TRUE])]
    /\ UNCHANGED <<cameras, motionTimers, timeouts, inflight, windowLeft, round>>

(* The window of a camera (a history of the forwards of lines 93 and 105,  *)
(* which the code does not keep): a forwarded state=true trigger opens it  *)
(* for motionTimeout seconds unless one is running; a forwarded            *)
(* state=false trigger closes it.                                          *)
Window(camera, c, d) ==
    IF d.handle = <<>> THEN windowLeft[camera.name]
    ELSE IF ~c.state THEN 0
    ELSE IF windowLeft[camera.name] > 0 THEN windowLeft[camera.name]
    ELSE IF camera.motionTimeout > 0 THEN camera.motionTimeout ELSE 0

(* How far the resolutions of the triggers of the observed camera have     *)
(* come in the sequence state=true on a camera without timer, state=true,  *)
(* state=false, state=true, each reaching line 82 with recordOnMovement    *)
(* set (a history the code does not keep). A trigger that breaks the       *)
(* sequence starts it again; so does the expiry of the camera's timer.     *)
Round(camera, c, generalSettings, timeout) ==
    LET r == round.step
    IN  IF SkipAtHome(generalSettings, c.cameraName) \/ ~camera.recordOnMovement THEN 0
        ELSE IF ~c.state THEN (IF r = 2 THEN 3 ELSE 0)
        ELSE IF r \in {1, 3} THEN r + 1
        ELSE IF timeout = NoTimer THEN 1
        ELSE 0

(* Lines 66-117: the invocation c resumes with the settings the store      *)
(* returned and runs to its return.                                        *)
Resume(c, generalSettings) ==
    /\ BagIn(c, inflight)
    /\ LET camera == getCamera(c.cameraName)
           timeout == motionTimers[camera.name]
           d == Resolve(camera, c, generalSettings, timeout)
       IN  /\ d.arm => FreeTimers # {}
           /\ timeouts' =
                  (IF d.clearTimeout THEN {x \in timeouts : x.id # timeout} ELSE timeouts)
                  \cup (IF d.arm
                        THEN {[id |-> FreshTimer, camera |-> camera.name,
                               left |-> timeoutConfig(camera)]}
                        ELSE {})
           /\ motionTimers' = [motionTimers EXCEPT ![camera.name] =
                  IF d.arm THEN FreshTimer ELSE IF d.delete THEN NoTimer ELSE @]
           /\ last' = [op |-> "handle", call |-> c, settings |-> generalSettings,
                       result |-> [error |-> FALSE, message |-> d.message],
                       handle |-> d.handle, emit |-> d.emit, lookup |-> TRUE,
                       timeout |-> d.timeout,
                       status |-> Answer(c.event, [error |-> FALSE])]
           /\ windowLeft' = [windowLeft EXCEPT ![camera.name] = Window(camera, c, d)]
           /\ round' = IF round.camera = camera.name
                       THEN [round EXCEPT !.step = Round(camera, c, generalSettings, timeout)]
                       ELSE round
    /\ inflight' = inflight (-) SetToBag({c})
    /\ UNCHANGED cameras

(* Expire with the entry of the camera left in the map. *)
ExpireKeepsEntry(x) ==
    /\ x \in timeouts
    /\ x.left = 0
    /\ timeouts' = timeouts \ {x}
    /\ last' = [NoStep EXCEPT !.op = "expire", !.call.cameraName = x.camera]
    /\ round' = IF round.camera = x.camera THEN [round EXCEPT !.step = 0] ELSE round
    /\ UNCHANGED <<cameras, motionTimers, inflight, windowLeft>>

(* Lines 97-100: the callback of a scheduled timer runs. *)
Expire(x) ==
    /\ x \in timeouts
    /\ x.left = 0
    /\ timeouts' = timeouts \ {x}
    /\ motionTimers' = [motionTimers EXCEPT ![x.camera] = NoTimer]
    /\ last' = [NoStep EXCEPT !.op = "expire", !.call.cameraName = x.camera]
    /\ round' = IF round.camera = x.camera THEN [round EXCEPT !.step = 0] ELSE round
    /\ UNCHANGED <<cameras, inflight, windowLeft>>

(* A second passes. *)
Tick ==
    /\ \/ \E x \in timeouts : x.left > 0
       \/ \E n \in CameraNames : windowLeft[n] > 0
    /\ timeouts' = { [x EXCEPT !.left = IF @ > 0 THEN @ - 1 ELSE 0] : x \in timeouts }
    /\ windowLeft' = [n \in CameraNames |-> IF windowLeft[n] > 0 THEN windowLeft[n] - 1 ELSE 0]
    /\ UNCHANGED <<cameras, motionTimers, inflight, last, round>>

Next ==
    \/ \E src \in Sources, n \in Names, st \in BOOLEAN : Start(src[1], n, st, src[2])
    \/ \E src \in Sources, n \in Names, st \in BOOLEAN : NotFound(src[1], n, st, src[2])
    \/ \E c \in BagToSet(inflight), g \in GeneralSettings : Resume(c, g)
    \/ \E x \in timeouts : Expire(x)
    \/ Tick

Spec == Init /\ [][Next]_vars

(* ----------------------------- the channels ---------------------------- *)

(* Lines 55, 180, 252: a channel calls #handleMotion, which returns at     *)
(* once for an unknown camera and is suspended at the lookup otherwise.    *)
handleMotion(triggerType, cameraName, state, event) ==
    \/ /\ BagCardinality(inflight) < MaxPending
       /\ Start(triggerType, cameraName, state, event)
    \/ NotFound(triggerType, cameraName, state, event)

(* Requests as the HTTP server receives them: the request target and what  *)
(* parse (line 167) returns for it, the pathname already split at '/'      *)
(* (<<>> for a missing pathname, "" for a missing query).                  *)
Requests ==
    { [url |-> "",                    pathname |-> <<>>,                      query |-> ""],
      [url |-> "?Garage",             pathname |-> <<>>,                      query |-> "Garage"],
      [url |-> "/motion",             pathname |-> <<"", "motion">>,          query |-> ""],
      [url |-> "/motion?Garage",      pathname |-> <<"", "motion">>,          query |-> "Garage"],
      [url |-> "/motion?Porch",       pathname |-> <<"", "motion">>,          query |-> "Porch"],
      [url |-> "/motion?Por%63h",     pathname |-> <<"", "motion">>,          query |-> "Por%63h"],
      [url |-> "/motion?%",           pathname |-> <<"", "motion">>,          query |-> "%"],
      [url |-> "/motion?Unknown",     pathname |-> <<"", "motion">>,          query |-> "Unknown"],
      [url |-> "/motion/reset?Garage", pathname |-> <<"", "motion", "reset">>, query |-> "Garage"],
      [url |-> "/resetall?Garage",    pathname |-> <<"", "resetall">>,        query |-> "Garage"],
      [url |-> "/doorbell?Porch",     pathname |-> <<"", "doorbell">>,        query |-> "Porch"],
      [url |-> "/foo?Garage",         pathname |-> <<"", "foo">>,             query |-> "Garage"] }

(* Line 170: decodeURIComponent replaces the percent escapes of the query  *)
(* and throws a URIError for an escape that is not well formed.            *)
decodeURIComponent(query) ==
    CASE query = "Por%63h" -> [thrown |-> FALSE, value |-> "Porch"]
      [] query = "%"       -> [thrown |-> TRUE,  value |-> ""]
      [] OTHER             -> [thrown |-> FALSE, value |-> query]

(* Line 176: pathname.includes('/reset'), on the segments of the pathname. *)
includesReset(pathname) ==
    \E i \in 2..Len(pathname) : pathname[i] \in {"reset", "resetall"}

(* httpTrigger with the first segment of every pathname as trigger type. *)
httpTriggerFirstSegment(pathname) ==
    [triggerType |-> pathname[2], state |-> ~includesReset(pathname)]

(* Lines 176-178: the trigger type and the state of a request. *)
httpTrigger(pathname) ==
    LET first == IF includesReset(pathname) THEN "reset" ELSE pathname[2]
    IN  [triggerType |-> IF first = "reset" THEN "motion" ELSE first,
         state |-> IF first = "dorbell" THEN TRUE
                   ELSE IF first = "reset" THEN FALSE ELSE TRUE]

(* Lines 158-189: the HTTP server receives a request. Its handler answers  *)
(* a malformed URL at once, is ended by the URIError of line 170 without   *)
(* an answer, or calls #handleMotion and answers when that returns.        *)
HttpRequest(request) ==
    IF request.url # "" /\ request.pathname # <<>> /\ request.query # ""
    THEN LET cameraName == decodeURIComponent(request.query)
             trigger == httpTrigger(request.pathname)
         IN  IF cameraName.thrown
             THEN /\ last' = [NoStep EXCEPT !.op = "throw", !.call.event = "http"]
                  /\ UNCHANGED <<cameras, motionTimers, timeouts, inflight, windowLeft, round>>
             ELSE handleMotion(trigger.triggerType, cameraName.value, trigger.state, "http")
    ELSE /\ last' = [NoStep EXCEPT
                        !.op = "reject",
                        !.call.event = "http",
                        !.result = [error |-> TRUE,
                                    message |-> <<"Malformed URL ", request.url>>],
                        !.status = writeHead([error |-> TRUE])]
         /\ UNCHANGED <<cameras, motionTimers, timeouts, inflight, windowLeft, round>>

(* Line 23: the topics of the configuration, each with its camera, its     *)
(* kind and its messages.                                                  *)
topics ==
    [t \in {"cam/garage/motion", "cam/garage/reset", "cam/porch/bell"} |->
        CASE t = "cam/garage/motion" ->
                 [camera |-> "Garage", motion |-> TRUE, reset |-> FALSE,
                  motionMessage |-> "ON", motionResetMessage |-> "OFF"]
          [] t = "cam/garage/reset" ->
                 [camera |-> "Garage", motion |-> TRUE, reset |-> TRUE,
                  motionMessage |-> "ON", motionResetMessage |-> "OFF"]
          [] OTHER ->
                 [camera |-> "Porch", motion |-> FALSE, reset |-> FALSE,
                  motionMessage |-> "ON", motionResetMessage |-> "OFF"]]

TopicNames == DOMAIN topics \cup {"cam/attic/motion"}
Messages == {"ON", "OFF", "TOGGLE"}
Undefined == [defined |-> FALSE, value |-> FALSE]

(* mqttState with the reset topic taking the motion message as well. *)
mqttStateAnyTopic(cameraMqttConfig, message) ==
    IF ~cameraMqttConfig.motion THEN [defined |-> TRUE, value |-> TRUE]
    ELSE IF message = cameraMqttConfig.motionMessage THEN [defined |-> TRUE, value |-> TRUE]
    ELSE IF message = cameraMqttConfig.motionResetMessage THEN [defined |-> TRUE, value |-> FALSE]
    ELSE Undefined

(* Lines 237-248: the state of an MQTT message, or undefined. *)
mqttState(cameraMqttConfig, message) ==
    IF ~cameraMqttConfig.motion THEN [defined |-> TRUE, value |-> TRUE]
    ELSE IF cameraMqttConfig.reset
    THEN (IF message = cameraMqttConfig.motionResetMessage
          THEN [defined |-> TRUE, value |-> FALSE] ELSE Undefined)
    ELSE IF message = cameraMqttConfig.motionMessage THEN [defined |-> TRUE, value |-> TRUE]
    ELSE IF message = cameraMqttConfig.motionResetMessage THEN [defined |-> TRUE, value |-> FALSE]
    ELSE Undefined

(* Lines 221-265: the MQTT client receives a message. *)
MqttMessage(topic, message) ==
    IF topic \in DOMAIN topics
    THEN LET cameraMqttConfig == topics[topic]
             triggerType == IF cameraMqttConfig.motion THEN "motion" ELSE "doorbell"
             state == mqttState(cameraMqttConfig, message)
         IN  IF state.defined
             THEN handleMotion(triggerType, cameraMqttConfig.camera, state.value, "mqtt")
             ELSE /\ last' = [NoStep EXCEPT
                                 !.op = "reject",
                                 !.call.event = "mqtt",
                                 !.result = [error |-> TRUE,
                                             message |-> <<"The incoming MQTT message (", message,
                                                           ") for the topic (", topic,
                                                           ") was not the same as set in config.json. Skip...">>]]
                  /\ UNCHANGED <<cameras, motionTimers, timeouts, inflight, windowLeft, round>>
    ELSE /\ last' = [NoStep EXCEPT
                        !.op = "reject",
                        !.call.event = "mqtt",
                        !.result = [error |-> TRUE,
                                    message |-> <<"Can not assign the MQTT topic (", topic,
                                                  ") to a camera!">>]]
         /\ UNCHANGED <<cameras, motionTimers, timeouts, inflight, windowLeft, round>>

(* Lines 49-58: the entry point for external events, and the camera names  *)
(* it is called with.                                                      *)
ExternNames == {"Garage", "Unknown"}
triggerMotion(cameraName, state) ==
    handleMotion("custom", cameraName, state, "extern")

(* Line 305: the camera name of a recipient, the part of the address       *)
(* before '@'.                                                             *)
Recipients == {"Garage@camera.ui", "Porch@camera.ui"}
rcptName(address) == IF address = "Garage@camera.ui" THEN "Garage" ELSE "Porch"

(* Lines 300-314: the SMTP server receives a mail for a recipient and      *)
(* requests /motion?<name> from the HTTP server of this process (the       *)
(* request is taken as received at once).                                  *)
SmtpMail(address) ==
    HttpRequest(CHOOSE request \in Requests :
                    /\ request.pathname = <<"", "motion">>
                    /\ request.query = rcptName(address))

(* The camera lists of the controller with its channels: both cameras      *)
(* record on movement with a motionTimeout of more than zero seconds.      *)
ChannelRegistries ==
    {r \in Registries :
        \A i \in 1..Len(r) : r[i].recordOnMovement /\ r[i].motionTimeout > 0}

ChannelInit ==
    /\ cameras \in ChannelRegistries
    /\ motionTimers = [n \in CameraNames |-> NoTimer]
    /\ timeouts = {}
    /\ inflight = EmptyBag
    /\ last = NoStep
    /\ windowLeft = [n \in CameraNames |-> 0]
    /\ round = NoRound

ChannelNext ==
    \/ \E request \in Requests : HttpRequest(request)
    \/ \E topic \in TopicNames, message \in Messages : MqttMessage(topic, message)
    \/ \E cameraName \in ExternNames, state \in BOOLEAN : triggerMotion(cameraName, state)
    \/ \E address \in Recipients : SmtpMail(address)
    \/ \E c \in BagToSet(inflight), g \in GeneralSettings : Resume(c, g)
    \/ \E x \in timeouts : Expire(x)
    \/ Tick

ChannelSpec == ChannelInit /\ [][ChannelNext]_vars

(* The event loop of the runtime: time passes, and a timer scheduled at    *)
(* line 97 whose delay has elapsed has its callback run unless             *)
(* clearTimeout (line 87) cancels it first.                                *)
Fairness ==
    /\ WF_vars(Tick)
    /\ \A n \in CameraNames : WF_vars(\E x \in timeouts : x.camera = n /\ Expire(x))

LiveSpec == Spec /\ Fairness

(* The camera lists whose cameras all record on movement with a            *)
(* motionTimeout of zero or more seconds.                                  *)
RoundTripRegistries ==
    {r \in Registries :
        \A i \in 1..Len(r) : r[i].recordOnMovement /\ r[i].motionTimeout >= 0}

(* The controller with the camera Porch under observation from the start. *)
RoundTripInit ==
    /\ cameras \in RoundTripRegistries
    /\ motionTimers = [n \in CameraNames |-> NoTimer]
    /\ timeouts = {}
    /\ inflight = EmptyBag
    /\ last = NoStep
    /\ windowLeft = [n \in CameraNames |-> 0]
    /\ round = [camera |-> "Porch", step |-> 0]

RoundTripSpec == RoundTripInit /\ [][Next]_vars

----------------------------------------------------------------------------
(* The vocabulary of the properties, stated on the configuration and the   *)
(* inputs themselves.                                                      *)

Known(n) == \E i \in 1..Len(cameras) : cameras[i].name = n
Config(n) == cameras[CHOOSE i \in 1..Len(cameras) : cameras[i].name = n]
AtHomeNotExcluded(g, n) == g.defined /\ g.atHome /\ n \notin g.exclude
Armed(n) == motionTimers[n] # NoTimer
TimersOf(n) == {x \in timeouts : x.camera = n}

(* A trigger that reaches the debounce step. *)
Debounced(c, g) ==
    /\ Known(c.cameraName)
    /\ Config(c.cameraName).recordOnMovement
    /\ ~AtHomeNotExcluded(g, c.cameraName)

SkipTimeoutActive == <<"Skip motion event, timeout active!">>
HandledIntern == <<"Handled through intern controller">>
HandledExtern == <<"Handled through extern controller">>

(* C1: for a camera with recordOnMovement and motionTimeout = T > 0, once  *)
(* a state=true trigger has been forwarded, no further state=true trigger  *)
(* resolved within T seconds of it (and before a state=false trigger) is   *)
(* forwarded to the Event Sink.                                            *)
C1_OneForwardPerWindow ==
    [][\A c \in BagToSet(inflight), g \in GeneralSettings :
          ( /\ Resume(c, g)
            /\ c.state
            /\ Debounced(c, g)
            /\ Config(c.cameraName).motionTimeout > 0
            /\ windowLeft[c.cameraName] > 0 )
          => last'.handle = <<>>]_vars

(* C2: a state=true trigger resolved while the camera is ARMED is          *)
(* suppressed with 'Skip motion event, timeout active!' and leaves the     *)
(* entry and its timer as they were; a scheduled timer is cancelled only   *)
(* by a state=false trigger that arrives while the camera is ARMED.        *)
C2_ArmedTrueLeavesTimer ==
    [][\A c \in BagToSet(inflight), g \in GeneralSettings :
          ( /\ Resume(c, g)
            /\ c.state
            /\ Debounced(c, g)
            /\ Armed(c.cameraName) )
          => /\ last'.handle = <<>>
             /\ last'.result = [error |-> FALSE, message |-> SkipTimeoutActive]
             /\ motionTimers' = motionTimers
             /\ timeouts' = timeouts]_vars

(* C3: a state=false trigger resolved while the camera is ARMED, whatever  *)
(* time is left on the timer, cancels the timer, removes the entry,        *)
(* forwards exactly the one event (triggerType, cameraName, false) and     *)
(* arms no timer.                                                          *)
C3_ArmedFalseResets ==
    [][\A c \in BagToSet(inflight), g \in GeneralSettings :
          ( /\ Resume(c, g)
            /\ ~c.state
            /\ Debounced(c, g)
            /\ Armed(c.cameraName) )
          => /\ motionTimers' = [motionTimers EXCEPT ![c.cameraName] = NoTimer]
             /\ timeouts' = timeouts \ TimersOf(c.cameraName)
             /\ last'.handle = << [triggerType |-> c.triggerType,
                                   cameraName |-> c.cameraName, state |-> FALSE] >>
             /\ last'.result.error = FALSE]_vars

(* A reset has just been forwarded for a camera that was ARMED with time   *)
(* left on its timer; the camera is IDLE and no timer is scheduled for it. *)
C3_Witness ==
    /\ last.op = "handle"
    /\ ~last.call.state
    /\ last.timeout # NoTimer
    /\ windowLeft[last.call.cameraName] = 0
    /\ Len(last.handle) = 1
    /\ ~Armed(last.call.cameraName)
    /\ TimersOf(last.call.cameraName) = {}

(* The last step resolved a state=true trigger that reached the debounce   *)
(* step of camera n.                                                       *)
ResolvedTrue(n) ==
    /\ last.op = "handle"
    /\ last.call.cameraName = n
    /\ last.call.state
    /\ Debounced(last.call, last.settings)

FirstOfTwoForwarded(c) ==
    /\ c.state
    /\ Known(c.cameraName)
    /\ Config(c.cameraName).motionTimeout > 0
    /\ ResolvedTrue(c.cameraName)
    /\ last.timeout = NoTimer
    /\ last.handle = <<Forward(last.call)>>

(* C5 as claimed: of two state=true triggers in flight together while the  *)
(* camera is IDLE, the one that resumes second has observed IDLE as well   *)
(* and is forwarded too.                                                   *)
C5_BothObserveIdle ==
    [][\A c \in BagToSet(inflight), g \in GeneralSettings :
          (Resume(c, g) /\ Debounced(c, g) /\ FirstOfTwoForwarded(c))
          => last'.handle = <<Forward(c)>>]_vars

(* C5 as amended: the timer is read and armed in one step after the        *)
(* lookup, so of two state=true triggers in flight together while the      *)
(* camera is IDLE the one that resumes second finds the timer the first    *)
(* armed and is suppressed: nothing is forwarded for it.                   *)
C5_SecondFindsTimer ==
    [][\A c \in BagToSet(inflight), g \in GeneralSettings :
          (Resume(c, g) /\ Debounced(c, g) /\ FirstOfTwoForwarded(c))
          => /\ last'.handle = <<>>
             /\ last'.timeout # NoTimer
             /\ last'.result = [error |-> FALSE, message |-> SkipTimeoutActive]]_vars

(* Two state=true triggers of one camera were in flight while it was IDLE; *)
(* the first has been forwarded and the second is still suspended.         *)
C5_Witness ==
    \E c \in BagToSet(inflight) : FirstOfTwoForwarded(c) /\ Armed(c.cameraName)

(* C6: a trigger whose lookup reports atHome with the camera not excluded, *)
(* of any type and state and whether the camera is IDLE or ARMED, forwards *)
(* nothing, emits no notification, does not read or change the entries or  *)
(* the timers, and returns error = false with the at-home message.         *)
C6_AtHomeSuppresses ==
    [][\A c \in BagToSet(inflight), g \in GeneralSettings :
          (Resume(c, g) /\ AtHomeNotExcluded(g, c.cameraName))
          => /\ last'.handle = <<>>
             /\ last'.emit = <<>>
             /\ last'.timeout = NoTimer
             /\ motionTimers' = motionTimers
             /\ timeouts' = timeouts
             /\ last'.result =
                  [error |-> FALSE,
                   message |-> <<"Skip motion trigger. At Home is active and ",
                                 c.cameraName, " is not excluded!">>]]_vars

(* A trigger has just been suppressed at home while its camera is ARMED    *)
(* and the timer is still scheduled.                                       *)
C6_Witness ==
    /\ last.op = "handle"
    /\ last.lookup
    /\ AtHomeNotExcluded(last.settings, last.call.cameraName)
    /\ last.handle = <<>>
    /\ Armed(last.call.cameraName)
    /\ TimersOf(last.call.cameraName) # {}

(* C7: a trigger whose camera name is not in the camera list returns       *)
(* error = true with "Camera '<name>' not found", is not suspended at the  *)
(* settings lookup, forwards and emits nothing and leaves every entry and  *)
(* timer as it was.                                                        *)
C7_UnknownCamera ==
    [][( /\ last' # last
         /\ last'.op \in {"start", "handle"}
         /\ ~Known(last'.call.cameraName) )
       => /\ last'.op = "handle"
          /\ last'.result =
               [error |-> TRUE,
                message |-> <<"Camera '", last'.call.cameraName, "' not found">>]
          /\ last'.handle = <<>>
          /\ last'.emit = <<>>
          /\ ~last'.lookup
          /\ inflight' = inflight
          /\ motionTimers' = motionTimers
          /\ timeouts' = timeouts]_vars

(* A trigger of an unknown camera has just been rejected while a camera    *)
(* is ARMED.                                                               *)
C7_Witness ==
    /\ last.op = "handle"
    /\ ~Known(last.call.cameraName)
    /\ last.result.error
    /\ \E n \in CameraNames : Armed(n) /\ TimersOf(n) # {}

(* C8: in every reachable state the timers scheduled for a camera are      *)
(* exactly the one stored under its name, or none when it has no entry,    *)
(* and no two scheduled timers share a handle.                             *)
C8_OneTimerPerCamera ==
    /\ \A n \in CameraNames :
          IF Armed(n)
          THEN \E x \in timeouts : x.id = motionTimers[n] /\ TimersOf(n) = {x}
          ELSE TimersOf(n) = {}
    /\ \A x, y \in timeouts : x.id = y.id => x = y

(* Both cameras are ARMED, each with its own scheduled timer. *)
C8_Witness ==
    /\ Armed("Garage")
    /\ Armed("Porch")
    /\ motionTimers["Garage"] # motionTimers["Porch"]
    /\ Cardinality(timeouts) = 2

(* The step arms camera n: it had no entry and has one now. *)
Arms(n) == ~Armed(n) /\ Armed(n)'

(* The step that arms n is the resolution of a state=true trigger of n     *)
(* that found no timer and is forwarded.                                   *)
ArmedByForwardedTrue(n) ==
    /\ last'.op = "handle"
    /\ last'.call.cameraName = n
    /\ last'.call.state
    /\ last'.timeout = NoTimer
    /\ last'.handle = <<Forward(last'.call)>>

(* The expiry of a timer removes the entry of its camera and forwards and  *)
(* emits nothing.                                                          *)
ExpiryOnlyCleans ==
    \A x \in timeouts :
        Expire(x) => /\ ~Armed(x.camera)'
                     /\ last'.op = "expire"
                     /\ last'.handle = <<>>
                     /\ last'.emit = <<>>

C10_ExternOnly ==
    [][\A c \in BagToSet(inflight), g \in GeneralSettings :
          ( /\ Resume(c, g)
            /\ Known(c.cameraName)
            /\ ~Config(c.cameraName).recordOnMovement
            /\ ~AtHomeNotExcluded(g, c.cameraName) )
          => /\ motionTimers' = motionTimers
             /\ timeouts' = timeouts
             /\ last'.timeout = NoTimer
             /\ last'.handle = <<>>
             /\ last'.emit = << [cameraName |-> c.cameraName,
                                 triggerType |-> c.triggerType,
                                 state |-> c.state, event |-> c.event] >>
             /\ last'.result = [error |-> FALSE, message |-> HandledExtern]]_vars

(* A state=true trigger of a camera with recordOnMovement = false has just *)
(* been handled by the notification alone, while another camera is ARMED.  *)
C10_Witness ==
    /\ last.op = "handle"
    /\ Known(last.call.cameraName)
    /\ ~Config(last.call.cameraName).recordOnMovement
    /\ ~AtHomeNotExcluded(last.settings, last.call.cameraName)
    /\ last.call.state
    /\ Len(last.emit) = 1
    /\ last.handle = <<>>
    /\ \E n \in CameraNames : Armed(n)

(* C11: every trigger of a known camera that is not suppressed at home     *)
(* emits the notification exactly once and returns error = false, whatever *)
(* recordOnMovement says, whether the camera is IDLE or ARMED and whether   *)
(* the debounce step forwards, resets or suppresses the trigger.           *)
C11_EmitsOnce ==
    [][\A c \in BagToSet(inflight), g \in GeneralSettings :
          ( /\ Resume(c, g)
            /\ Known(c.cameraName)
            /\ ~AtHomeNotExcluded(g, c.cameraName) )
          => /\ last'.emit = << [cameraName |-> c.cameraName,
                                 triggerType |-> c.triggerType,
                                 state |-> c.state, event |-> c.event] >>
             /\ last'.result.error = FALSE]_vars

(* A state=true trigger has just been suppressed by the running timer and  *)
(* its notification was emitted all the same.                              *)
C11_Witness ==
    /\ last.op = "handle"
    /\ Known(last.call.cameraName)
    /\ ~AtHomeNotExcluded(last.settings, last.call.cameraName)
    /\ last.timeout # NoTimer
    /\ last.handle = <<>>
    /\ Len(last.emit) = 1
    /\ last.result = [error |-> FALSE, message |-> SkipTimeoutActive]

(* C12: every trigger that is forwarded to the Event Sink returns          *)
(* error = false with 'Handled through intern controller', the state=true  *)
(* trigger forwarded while IDLE and the state=false reset forwarded while  *)
(* ARMED alike.                                                            *)
C12_ForwardedIsIntern ==
    (last.op = "handle" /\ last.handle # <<>>)
    => last.result = [error |-> FALSE, message |-> HandledIntern]

(* C18: a state=false trigger that reaches the debounce step of a camera   *)
(* without entry changes no entry and no timer, is forwarded as            *)
(* (triggerType, cameraName, false) and returns error = false; resolved a  *)
(* second time right after the first, it gives the same result and state.  *)
C18_ResetWhileIdle ==
    [][\A c \in BagToSet(inflight), g \in GeneralSettings :
          ( /\ Resume(c, g)
            /\ ~c.state
            /\ Debounced(c, g)
            /\ ~Armed(c.cameraName) )
          => /\ motionTimers' = motionTimers
             /\ timeouts' = timeouts
             /\ last'.handle = << [triggerType |-> c.triggerType,
                                   cameraName |-> c.cameraName, state |-> FALSE] >>
             /\ last'.result = [error |-> FALSE, message |-> HandledIntern]
             /\ ( /\ last.op = "handle"
                  /\ last.call = c
                  /\ last.settings = g
                  /\ last.timeout = NoTimer )
                => last' = last]_vars

(* A reset has just been forwarded for a camera without entry and the same *)
(* reset, suspended since before, is about to be resolved again.           *)
C18_Witness ==
    /\ last.op = "handle"
    /\ ~last.call.state
    /\ Debounced(last.call, last.settings)
    /\ last.timeout = NoTimer
    /\ last.handle = <<Forward(last.call)>>
    /\ ~Armed(last.call.cameraName)
    /\ BagIn(last.call, inflight)

(* C19: under fairness of timer firing every camera that is ARMED is IDLE  *)
(* again at some later time, whatever triggers are resolved in between     *)
(* (none, triggers suppressed at home, triggers of other cameras): no      *)
(* entry stays in the map forever.                                         *)
C19_ArmedEventuallyIdle ==
    \A n \in CameraNames : Armed(n) ~> ~Armed(n)

(* The timer of a camera has just run its callback while a trigger is      *)
(* suspended at the lookup; the camera has no entry and no timer.          *)
C19_Witness ==
    /\ last.op = "expire"
    /\ ~Armed(last.call.cameraName)
    /\ TimersOf(last.call.cameraName) = {}
    /\ BagToSet(inflight) # {}

(* C17: for a camera with recordOnMovement and motionTimeout = T > 0 that  *)
(* has no entry, the triggers state=true, state=true, state=false,         *)
(* state=true, resolved one after the other before any timer of the camera *)
(* expires, leave what a single state=true trigger leaves: one entry, one  *)
(* scheduled timer with T seconds to run, and the last trigger forwarded.  *)
C17_RoundTrip ==
    [][\A n \in CameraNames :
          ( /\ round'.camera = n
            /\ Known(n)
            /\ Config(n).recordOnMovement
            /\ Config(n).motionTimeout > 0
            /\ round'.step \in {1, 4} )
          => /\ Armed(n)'
             /\ \E x \in timeouts' : x.id = motionTimers'[n] /\ {y \in timeouts' : y.camera = n} = {x}
             /\ round'.step # round.step
                => /\ \A x \in timeouts' : x.camera = n => x.left = Config(n).motionTimeout
                   /\ last'.handle = << [triggerType |-> last'.call.triggerType,
                                         cameraName |-> n, state |-> TRUE] >>
                   /\ last'.result = [error |-> FALSE, message |-> HandledIntern]]_vars

(* The fourth trigger of the sequence has just been resolved for the       *)
(* observed camera: it is forwarded and the camera is ARMED.               *)
C17_Witness ==
    /\ round.step = 4
    /\ last.op = "handle"
    /\ last.call.cameraName = round.camera
    /\ last.call.state
    /\ Len(last.handle) = 1
    /\ Armed(round.camera)

(* A request without pathname or without query. *)
MissingPathOrQuery(request) ==
    request.url = "" \/ request.pathname = <<>> \/ request.query = ""

(* The pathname contains '/reset'. *)
HasReset(pathname) ==
    \E i \in 2..Len(pathname) : pathname[i] = "reset" \/ pathname[i] = "resetall"

(* The topic has a mapping for motion and the message resolves to no state. *)
Unresolved(topic, message) ==
    /\ topic \in DOMAIN topics
    /\ topics[topic].motion
    /\ IF topics[topic].reset
       THEN message # topics[topic].motionResetMessage
       ELSE message \notin {topics[topic].motionMessage, topics[topic].motionResetMessage}

(* The step is the receipt of the request, of the message, or the          *)
(* resumption of c with the settings g; each is stated with what the step  *)
(* records of itself first.                                                *)
Received(request) ==
    last'.call.event = "http" /\ ~last'.lookup /\ HttpRequest(request)

Delivered(topic, message) ==
    last'.call.event = "mqtt" /\ ~last'.lookup /\ MqttMessage(topic, message)

Resumed(c, g) ==
    last'.lookup /\ last'.call = c /\ last'.settings = g /\ Resume(c, g)

(* The step calls the resolver with the trigger, from the channel event. *)
Called(triggerType, cameraName, state, event) ==
    /\ last'.op \in {"start", "handle"}
    /\ last'.call = [triggerType |-> triggerType, cameraName |-> cameraName,
                     state |-> state, event |-> event]

(* The step rejects its input before the resolver: nothing is emitted or   *)
(* forwarded, no invocation starts and no entry or timer changes.          *)
NotReached ==
    /\ last'.op = "reject"
    /\ last'.result.error
    /\ last'.handle = <<>>
    /\ last'.emit = <<>>
    /\ inflight' = inflight
    /\ motionTimers' = motionTimers
    /\ timeouts' = timeouts

C14_HttpNormalization ==
    [][\A request \in Requests :
          HttpRequest(request)
          => IF MissingPathOrQuery(request)
             THEN /\ NotReached
                  /\ last'.result.message = <<"Malformed URL ", request.url>>
             ELSE Called(IF HasReset(request.pathname) THEN "motion"
                                                      ELSE request.pathname[2],
                         decodeURIComponent(request.query).value,
                         ~HasReset(request.pathname),
                         "http")]_vars

(* C15: a message on a topic without mapping is rejected; on a mapped      *)
(* topic the trigger type is 'motion' if mapping.motion and 'doorbell'     *)
(* otherwise; a doorbell has state true for any message; a motion mapping  *)
(* with reset set has state false for motionResetMessage and is unresolved *)
(* otherwise; one with reset unset has state true for motionMessage, false *)
(* for motionResetMessage and is unresolved otherwise. A rejected or       *)
(* unresolved message does not reach the resolver.                         *)
C15_MqttNormalization ==
    [][\A topic \in TopicNames, message \in Messages :
          Delivered(topic, message)
          => IF topic \notin DOMAIN topics THEN NotReached
             ELSE LET mapping == topics[topic]
                  IN  IF ~mapping.motion
                      THEN Called("doorbell", mapping.camera, TRUE, "mqtt")
                      ELSE IF mapping.reset
                      THEN (IF message = mapping.motionResetMessage
                            THEN Called("motion", mapping.camera, FALSE, "mqtt")
                            ELSE NotReached)
                      ELSE IF message = mapping.motionMessage
                      THEN Called("motion", mapping.camera, TRUE, "mqtt")
                      ELSE IF message = mapping.motionResetMessage
                      THEN Called("motion", mapping.camera, FALSE, "mqtt")
                      ELSE NotReached]_vars

(* The motion message has just been rejected on the topic whose mapping    *)
(* has reset set, while an invocation is suspended at the lookup.          *)
C15_Witness ==
    /\ last.op = "reject"
    /\ last.call.event = "mqtt"
    /\ last.result.message =
          <<"The incoming MQTT message (", "ON", ") for the topic (", "cam/garage/reset",
            ") was not the same as set in config.json. Skip...">>
    /\ BagToSet(inflight) # {}

(* C16 as claimed: every trigger that the HTTP and the MQTT channel hand   *)
(* to the resolver has the type 'motion' or 'doorbell' and a boolean       *)
(* state, and so has every event forwarded from these channels.            *)
C16_MotionOrDoorbell ==
    (last.op \in {"start", "handle"} /\ last.call.event \in {"http", "mqtt"})
    => /\ last.call.triggerType \in {"motion", "doorbell"}
       /\ last.call.state \in BOOLEAN
       /\ \A i \in 1..Len(last.handle) :
             last.handle[i].triggerType \in {"motion", "doorbell"}

(* C16 as amended: a trigger of the MQTT channel has the type 'motion' or  *)
(* 'doorbell'; a trigger of the HTTP channel has the type 'motion' if the  *)
(* path contains '/reset' and the first path segment otherwise, whatever   *)
(* its spelling; the state is a boolean on both channels, and an event is  *)
(* forwarded with the type of its trigger.                                 *)
C16_TypeOfChannel ==
    [][/\ \A request \in Requests :
             (Received(request) /\ last'.op \in {"start", "handle"})
             => /\ last'.call.triggerType =
                      IF HasReset(request.pathname) THEN "motion"
                                                    ELSE request.pathname[2]
                /\ last'.call.state \in BOOLEAN
       /\ \A topic \in TopicNames, message \in Messages :
             (Delivered(topic, message) /\ last'.op \in {"start", "handle"})
             => /\ last'.call.triggerType \in {"motion", "doorbell"}
                /\ last'.call.state \in BOOLEAN
       /\ \A i \in 1..Len(last'.handle) :
             last'.handle[i].triggerType = last'.call.triggerType]_vars

(* The request /foo?Garage has been resolved and forwarded as an event of  *)
(* the type 'foo'.                                                         *)
C16_Witness ==
    /\ last.op = "handle"
    /\ last.call.event = "http"
    /\ last.handle = << [triggerType |-> "foo", cameraName |-> "Garage", state |-> TRUE] >>

(* C20: the entries are keyed by the camera name alone. A state=true       *)
(* trigger of any type and channel that reaches the debounce step while    *)
(* its camera has a timer, armed by whatever type and channel, is          *)
(* suppressed; resolving a trigger of one camera leaves the entry and the  *)
(* timer of every other camera as they were.                               *)
C20_KeyedByCamera ==
    [][\A c \in BagToSet(inflight), g \in GeneralSettings :
          Resumed(c, g)
          => /\ \A n \in CameraNames \ {c.cameraName} :
                   /\ motionTimers'[n] = motionTimers[n]
                   /\ {x \in timeouts' : x.camera = n} = TimersOf(n)
             /\ (c.state /\ Debounced(c, g) /\ Armed(c.cameraName))
                => /\ last'.handle = <<>>
                   /\ last'.result = [error |-> FALSE, message |-> SkipTimeoutActive]]_vars

(* A trigger of the type 'custom' from the external entry point has just   *)
(* been suppressed by the timer of its camera, which no 'custom' trigger   *)
(* is in flight to have armed together with it, while the other camera is  *)
(* ARMED with its timer scheduled.                                         *)
C20_Witness ==
    /\ last.op = "handle"
    /\ last.call.triggerType = "custom"
    /\ last.call.event = "extern"
    /\ last.timeout # NoTimer
    /\ last.result.message = SkipTimeoutActive
    /\ \E n \in CameraNames \ {last.call.cameraName} : Armed(n) /\ TimersOf(n) # {}

====
